---------------------------- MODULE Spec2Model ----------------------------
(***************************************************************************)
(* Model of the GitHub new-contributors service:                           *)
(*   src/src/services/githubServices.ts   GitHubService                    *)
(*   src/src/middleware/errorHandler.ts   errorHandler                     *)
(*   src/unnamed/part_003                 the two analysis routes          *)
(*                                                                         *)
(* Time is counted in seconds since the Unix epoch.  The source reads      *)
(* Date.now() in milliseconds; its millisecond constants (3600000, 1000,   *)
(* 86400000) appear here divided by 1000.                                  *)
(*                                                                         *)
(* A commit list is kept run-length encoded: a run [author, n, date]       *)
(* stands for n consecutive commits of one author made at one instant.     *)
(* Lists are kept canonical (no empty run, no two adjacent runs with the   *)
(* same author and date), so equality of encodings is equality of lists.   *)
(***************************************************************************)
EXTENDS Integers, Sequences, FiniteSets, TLC

(***************************************************************************)
(* Program constants                                                       *)
(***************************************************************************)
PER_PAGE == 100
MAX_PAGE == 1000
HOUR == 3600
RETRY_DELAY == 1
stdTTL == 86400
DAY == 86400
RECENT_TTL == 300
HISTORIC_TTL == 3600
DEFAULT_RATE_LIMIT == 5000

(***************************************************************************)
(* Bounds of the model                                                     *)
(***************************************************************************)
NProcs == 2
MaxCalls == 2
MaxEvents == 2
MaxCommits == 2

Procs == 1 .. NProcs

Max(a, b) == IF a >= b THEN a ELSE b

(***************************************************************************)
(* Calendar arithmetic of the JavaScript Date object (proleptic Gregorian  *)
(* calendar, no leap seconds, a fixed offset of local time from UTC).      *)
(***************************************************************************)
DaysFromCivil(y, m, d) ==
  LET yy  == IF m <= 2 THEN y - 1 ELSE y
      era == yy \div 400
      yoe == yy - era * 400
      mp  == (m + 9) % 12
      doy == (153 * mp + 2) \div 5 + d - 1
      doe == yoe * 365 + yoe \div 4 - yoe \div 100 + doy
  IN  era * 146097 + doe - 719468

CivilFromDays(z) ==
  LET zz  == z + 719468
      era == zz \div 146097
      doe == zz - era * 146097
      yoe == (doe - doe \div 1460 + doe \div 36524 - doe \div 146096) \div 365
      doy == doe - (365 * yoe + yoe \div 4 - yoe \div 100)
      mp  == (5 * doy + 2) \div 153
      d   == doy - (153 * mp + 2) \div 5 + 1
      m   == IF mp < 10 THEN mp + 3 ELSE mp - 9
      y   == yoe + era * 400 + (IF m <= 2 THEN 1 ELSE 0)
  IN  [year |-> y, month |-> m, day |-> d]

\* new Date("YYYY-MM-01"): a date-only ISO string is read as UTC midnight.
UtcMidnight(y, m, d) == DaysFromCivil(y, m, d) * DAY

\* new Date(y, monthIndex, 0, 23, 59, 59): local time, day 0 of the month with
\* index monthIndex (which may be 12) is the last day of the month before it.
LocalLastSecondBefore(y, monthIndex, tz) ==
  LET yy == y + monthIndex \div 12
      mm == (monthIndex % 12) + 1
  IN  (DaysFromCivil(yy, mm, 1) - 1) * DAY + 23 * 3600 + 59 * 60 + 59 - tz

\* startDate.getFullYear() and startDate.getMonth(): fields of the local time.
LocalFields(t, tz) == CivilFromDays((t + tz) \div DAY)

\* A month parameter is a string of digits, here the sequence of its
\* characters; the empty sequence is the absent (or empty) month.
DigitValue(ch) ==
  CASE ch = "0" -> 0 [] ch = "1" -> 1 [] ch = "2" -> 2 [] ch = "3" -> 3
    [] ch = "4" -> 4 [] ch = "5" -> 5 [] ch = "6" -> 6 [] ch = "7" -> 7
    [] ch = "8" -> 8 [] ch = "9" -> 9

\* month.padStart(2, "0")
PadStart2(month) == IF Len(month) < 2 THEN <<"0">> \o month ELSE month
MonthNumber(mm) == DigitValue(mm[1]) * 10 + DigitValue(mm[2])

\* githubServices.ts 236-251
StartDate(year, month) ==
  IF month # <<>>
    THEN UtcMidnight(year, MonthNumber(PadStart2(month)), 1)
    ELSE UtcMidnight(year, 1, 1)

EndDate(year, month, tz) ==
  IF month # <<>>
    THEN LET f == LocalFields(StartDate(year, month), tz)
         IN  LocalLastSecondBefore(f.year, (f.month - 1) + 1, tz)
    ELSE DaysFromCivil(year, 12, 31) * DAY + 23 * 3600 + 59 * 60 + 59 - tz

ClampStart_Never(startDate, repoCreatedAt) == startDate

\* githubServices.ts 253-256
ClampStart(startDate, repoCreatedAt) ==
  IF startDate < repoCreatedAt THEN repoCreatedAt ELSE startDate


(***************************************************************************)
(* Commit lists (run-length encoded, canonical)                            *)
(***************************************************************************)
\* commit.author is null, or an object with a login (which may be empty).
NoAuthor == "null"
Logins == {"a", "b", "c", "d"}

Run(a, n, t) == [author |-> a, n |-> n, date |-> t]

RECURSIVE Length(_)
Length(list) ==
  IF list = <<>> THEN 0 ELSE Head(list).n + Length(Tail(list))

SameKind(r1, r2) == r1.author = r2.author /\ r1.date = r2.date

\* allCommits.push(...commits)
Concat(a, b) ==
  IF a = <<>> THEN b
  ELSE IF b = <<>> THEN a
  ELSE IF SameKind(a[Len(a)], b[1])
    THEN SubSeq(a, 1, Len(a) - 1)
           \o <<Run(b[1].author, a[Len(a)].n + b[1].n, b[1].date)>>
           \o Tail(b)
    ELSE a \o b

RECURSIVE Take(_, _)
Take(list, k) ==
  IF k <= 0 \/ list = <<>> THEN <<>>
  ELSE IF Head(list).n <= k
    THEN <<Head(list)>> \o Take(Tail(list), k - Head(list).n)
    ELSE <<Run(Head(list).author, k, Head(list).date)>>

RECURSIVE Drop(_, _)
Drop(list, k) ==
  IF k <= 0 \/ list = <<>> THEN list
  ELSE IF Head(list).n <= k
    THEN Drop(Tail(list), k - Head(list).n)
    ELSE <<Run(Head(list).author, Head(list).n - k, Head(list).date)>> \o Tail(list)

HasLogin_NullOnly(a) == a # NoAuthor

\* commit.author?.login is truthy
HasLogin(a) == a # NoAuthor /\ a # ""


(***************************************************************************)
(* The upstream: GET /repos/{org}/{repo}/commits?since&until&page&per_page *)
(* answers page `page` of the commits dated within [since, until], newest  *)
(* first.                                                                  *)
(***************************************************************************)
RECURSIVE InWindow(_, _, _)
InWindow(history, since, until) ==
  IF history = <<>> THEN <<>>
  ELSE IF since <= Head(history).date /\ Head(history).date <= until
    THEN Concat(<<Head(history)>>, InWindow(Tail(history), since, until))
    ELSE InWindow(Tail(history), since, until)

PageOf(list, page) == Take(Drop(list, (page - 1) * PER_PAGE), PER_PAGE)

UpstreamPage(history, since, until, page) ==
  PageOf(InWindow(history, since, until), page)

(***************************************************************************)
(* Error messages are sequences of words; String.includes is a search for  *)
(* a contiguous run of words.                                              *)
(***************************************************************************)
Includes(msg, needle) ==
  \E i \in 0 .. Len(msg) - Len(needle) :
    \A j \in 1 .. Len(needle) : msg[i + j] = needle[j]

StatusMessage(status) == <<"Request", "failed", "with", "status", "code", status>>
TimeoutMessage == <<"timeout", "of", "30000ms", "exceeded">>
ResetMessage == <<"read", "ECONNRESET">>

FullName(org, repo) == <<org, "/", repo>>

\* githubServices.ts 163, 205
NotFoundMessage(org, repo) == <<"Repository">> \o FullName(org, repo) \o <<"not", "found">>
\* githubServices.ts 165
FetchRepositoryFailed(msg) == <<"Failed", "to", "fetch", "repository:">> \o msg
\* githubServices.ts 211
FetchCommitsFailed(msg) == <<"Failed", "to", "fetch", "commits:">> \o msg
AnalyzeFailed_Bare(msg) == msg

\* githubServices.ts 309
AnalyzeFailed(msg) == <<"Failed", "to", "analyze", "contributors:">> \o msg

\* errorHandler.ts 24-43 (the error thrown by the service carries no statusCode)
ErrorStatus(msg) ==
  IF Includes(msg, <<"not", "found">>) THEN 404
  ELSE IF Includes(msg, <<"Rate", "limit">>) THEN 429
  ELSE IF Includes(msg, <<"timeout">>) THEN 504
  ELSE IF Includes(msg, <<"Failed", "to", "fetch">>) THEN 502
  ELSE 500

ErrorBody(msg) ==
  IF Includes(msg, <<"not", "found">>) THEN msg
  ELSE IF Includes(msg, <<"Rate", "limit">>)
    THEN <<"GitHub", "API", "rate", "limit", "exceeded.", "Please", "try", "again", "later.">>
  ELSE IF Includes(msg, <<"timeout">>)
    THEN <<"GitHub", "API", "request", "timeout.", "Please", "try", "again", "later.">>
  ELSE IF Includes(msg, <<"Failed", "to", "fetch">>)
    THEN <<"Unable", "to", "fetch", "data", "from", "GitHub", "API.", "Please", "try", "again", "later.">>
  ELSE <<"Internal", "server", "error">>

(***************************************************************************)
(* The cache (node-cache): a function from keys to [v, t], t the expiry    *)
(* time.  An entry is served while its expiry time has not passed.         *)
(***************************************************************************)
RepoKey(org, repo) == <<"repo", org, repo>>
CommitsKey(org, repo, since, until, page) == <<"commits", org, repo, since, until, page>>
ContributorsKey(org, repo, year, month) ==
  <<"contributors", org, repo, year, IF month # <<>> THEN month ELSE <<"a", "l", "l">>>>

Live_Forever(c, key, t) == key \in DOMAIN c

Live(c, key, t) == key \in DOMAIN c /\ c[key].t >= t
CacheSet(c, key, value, ttl, t) ==
  [k \in DOMAIN c \cup {key} |-> IF k = key THEN [v |-> value, t |-> t + ttl] ELSE c[k]]

\* githubServices.ts 198-199
CommitsCacheTime(since, t) ==
  IF since > t - DAY THEN RECENT_TTL ELSE HISTORIC_TTL


(***************************************************************************)
(* The response error handler of the transport (setupInterceptors).        *)
(* An error reply is [status, code, remaining, reset, message]; status 0   *)
(* stands for an error without a response.                                 *)
(***************************************************************************)
Reply(status, code, remaining, reset, message) ==
  [status |-> status, code |-> code, remaining |-> remaining, reset |-> reset,
   message |-> message]

NotFoundReply == Reply(404, "", "", 0, StatusMessage("404"))
EmptyRepoReply == Reply(409, "", "", 0, StatusMessage("409"))
ServerErrorReply == Reply(500, "", "", 0, StatusMessage("500"))
ConnResetReply == Reply(0, "ECONNRESET", "", 0, ResetMessage)
TimeoutReply == Reply(0, "ECONNABORTED", "", 0, TimeoutMessage)
QuotaReply(reset) == Reply(403, "", "0", reset, StatusMessage("403"))
UnauthorizedReply == Reply(401, "", "", 0, StatusMessage("401"))
ForbiddenReply == Reply(403, "", "57", 0, StatusMessage("403"))

\* githubServices.ts 92-99
IsQuotaExhausted(err) == err.status = 403 /\ err.remaining = "0"
IsTransient_ClientErrors(err) == err.status >= 400 \/ err.code = "ECONNRESET"

IsTransient_ServerOnly(err) == err.status >= 500

IsTransient_Timeouts(err) ==
  err.status >= 500 \/ err.code = "ECONNRESET" \/ err.code = "ECONNABORTED"

\* githubServices.ts 109
IsTransient(err) == err.status >= 500 \/ err.code = "ECONNRESET"

\* The time the handler sleeps before it resends, or -1 when it throws.
ResendAfter(err, t) ==
  IF IsQuotaExhausted(err) /\ err.reset - t > 0 THEN err.reset - t
  ELSE IF IsTransient(err) THEN RETRY_DELAY
  ELSE -1

(***************************************************************************)
(* getRepository and getCommits: what their catch blocks make of an error  *)
(***************************************************************************)
\* githubServices.ts 161-166
RepositoryError(org, repo, err) ==
  IF err.status = 404 THEN NotFoundMessage(org, repo)
  ELSE FetchRepositoryFailed(err.message)

\* githubServices.ts 203-212 (a 409 is no error: see CommitsRecovered)
CommitsError(org, repo, err) ==
  IF err.status = 404 THEN NotFoundMessage(org, repo)
  ELSE FetchCommitsFailed(err.message)

CommitsRecovered_Never(err) == FALSE

CommitsRecovered(err) == err.status # 404 /\ err.status = 409

(***************************************************************************)
(* The two loops over commits of getNewContributorsByMonth                 *)
(***************************************************************************)
\* githubServices.ts 271-275
RECURSIVE CollectExisting(_, _)
CollectExisting(list, existing) ==
  IF list = <<>> THEN existing
  ELSE CollectExisting(Tail(list),
         IF HasLogin(Head(list).author)
           THEN existing \cup {Head(list).author} ELSE existing)

RECURSIVE FindNew_NoBaseline(_, _, _)
FindNew_NoBaseline(list, existing, new) ==
  IF list = <<>> THEN [existing |-> existing, new |-> new]
  ELSE LET a == Head(list).author
       IN  FindNew_NoBaseline(Tail(list),
                              IF HasLogin(a) THEN existing \cup {a} ELSE existing,
                              IF HasLogin(a) THEN new \cup {a} ELSE new)

\* githubServices.ts 287-295
RECURSIVE FindNew(_, _, _)
FindNew(list, existing, new) ==
  IF list = <<>> THEN [existing |-> existing, new |-> new]
  ELSE LET a == Head(list).author
           isNew == HasLogin(a) /\ a \notin existing
       IN  FindNew(Tail(list),
                   IF isNew THEN existing \cup {a} ELSE existing,
                   IF isNew THEN new \cup {a} ELSE new)


(***************************************************************************)
(* State                                                                   *)
(***************************************************************************)
VARIABLES
  now,            \* the wall clock, Date.now()
  tz,             \* offset of the process's local time from UTC
  upRepo,         \* the upstream repository: "missing", "empty" or "ok"
  upCreatedAt,    \* its created_at
  upHistory,      \* its commits, newest first
  budget,         \* what the environment may still do: concurrent callers, calls to start, events to cause
  cache,          \* GitHubService.cache
  requestCount,   \* GitHubService.requestCount
  lastResetTime,  \* GitHubService.lastResetTime
  rateLimit,      \* GitHubService.RATE_LIMIT_PER_HOUR
  call,           \* per caller: the request being served and its local variables
  fetchedAt,      \* the times at which repository metadata arrived from the upstream
  returned,       \* per (year, month): the result last computed and when
  http            \* the HTTP request last routed: what validateParams and the route did with it

vars == <<now, tz, upRepo, upCreatedAt, upHistory, budget, cache, requestCount,
          lastResetTime, rateLimit, call, fetchedAt, returned, http>>

upstream == <<tz, upCreatedAt, upHistory, rateLimit>>

ORG == "octo"
REPO == "demo"

NoRequest == [kind |-> "none", since |-> 0, until |-> 0, page |-> 0]
RepoRequest == [kind |-> "repo", since |-> 0, until |-> 0, page |-> 0]
CommitsRequest(since, until, page) ==
  [kind |-> "commits", since |-> since, until |-> until, page |-> page]

NoResult ==
  [org |-> "", repository |-> "", year |-> 0, month |-> <<>>, newContributors |-> -1]
\* No HTTP request has been routed yet.
NoHttp == [req |-> <<>>, sent |-> <<>>, next |-> 0, service |-> 0]
NoReply == [status |-> 0, code |-> "", remaining |-> "", reset |-> 0, message |-> <<>>]

\* The locals of one request before the route handler has run.  The last four
\* fields record what the call did: whether the cached result answered it, the
\* requests it dispatched, the pages the cache served and the resends made.
Fresh ==
  [pc |-> "idle", org |-> ORG, repo |-> REPO, year |-> 0, month |-> <<>>,
   repoCreatedAt |-> 0, startDate |-> 0, endDate |-> 0,
   existingContributors |-> {}, newContributorsInPeriod |-> {},
   beforePeriodCommits |-> <<>>, periodCommits |-> <<>>,
   phase |-> "none", since |-> 0, until |-> 0,
   page |-> 0, hasMore |-> FALSE, allCommits |-> <<>>, warned |-> 0,
   req |-> NoRequest, wake |-> 0, err |-> NoReply, cause |-> <<>>,
   result |-> NoResult, error |-> <<>>, status |-> 0, body |-> <<>>,
   hit |-> FALSE, sent |-> <<>>, pageHits |-> 0, resends |-> 0]

(***************************************************************************)
(* Inputs: instants, histories and requests the model draws from           *)
(***************************************************************************)
Now0 == UtcMidnight(2024, 1, 15) + 12 * 3600
TBefore == UtcMidnight(2020, 7, 1)
TInside == UtcMidnight(2021, 6, 1) + 2 * 3600

CreatedChoices == {UtcMidnight(2020, 1, 1), UtcMidnight(2021, 6, 1), UtcMidnight(2022, 3, 1)}
Offsets == {0, -5 * 3600}
Slots == {TBefore, TInside}
SmallAuthors == {NoAuthor, "", "a", "b"}
Queries == {[year |-> 2021, month |-> <<"6">>], [year |-> 2021, month |-> <<>>]}
Deltas == {1, stdTTL + 1}
RateLimits == {1, DEFAULT_RATE_LIMIT}
QuotaWait == 60

RECURSIVE Canonical(_)
Canonical(runs) ==
  IF runs = <<>> THEN <<>> ELSE Concat(<<Head(runs)>>, Canonical(Tail(runs)))

NewestFirst(runs) == \A i \in 1 .. Len(runs) - 1 : runs[i].date >= runs[i + 1].date

SmallRuns == {Run(a, 1, t) : a \in SmallAuthors, t \in Slots}
SmallHistories ==
  {Canonical(h) : h \in {g \in UNION {[1 .. k -> SmallRuns] : k \in 0 .. MaxCommits} :
                          NewestFirst(g)}}

\* baseline {a, b}, target {b, c, c, d}
ExampleHistory ==
  <<Run("b", 1, TInside), Run("c", 2, TInside), Run("d", 1, TInside),
    Run("a", 1, TBefore), Run("b", 1, TBefore)>>
\* pages of sizes 100, 100, 37 and 100, 0
PagedHistories ==
  {<<Run("a", 2 * PER_PAGE, TInside), Run("b", 37, TInside), Run("b", 1, TBefore)>>,
   <<Run("a", PER_PAGE, TInside)>>}
\* windows that reach the page cap
LongHistories ==
  {<<Run("a", MAX_PAGE * PER_PAGE, TInside)>>,
   <<Run("a", MAX_PAGE * PER_PAGE, TInside), Run("b", 1, TInside)>>,
   <<Run("a", (MAX_PAGE - 1) * PER_PAGE + 37, TInside)>>}

\* An event is a fault of a request, a jump of the clock or the deletion of
\* the upstream repository.
Budget(callers, calls, events) == [callers |-> callers, calls |-> calls, events |-> events]

Scenario(repo, createdAt, history, offset, limit, b) ==
  [repo |-> repo, createdAt |-> createdAt, history |-> history, tz |-> offset,
   limit |-> limit, budget |-> b]

\* one request over every small history, creation time and offset
DataScenarios ==
  {Scenario("ok", t, h, o, DEFAULT_RATE_LIMIT, Budget(1, 1, 1)) :
     t \in CreatedChoices, h \in SmallHistories \cup {ExampleHistory}, o \in Offsets}

\* several requests, one after the other, in an eventful environment
SerialScenarios ==
  {Scenario(r, UtcMidnight(2020, 1, 1), IF r = "ok" THEN ExampleHistory ELSE <<>>, 0, l,
            Budget(1, MaxCalls, MaxEvents)) :
     r \in {"ok", "empty", "missing"}, l \in RateLimits}

\* concurrent requests
ConcurrentScenarios ==
  {Scenario("ok", UtcMidnight(2020, 1, 1), ExampleHistory, 0, l, Budget(NProcs, NProcs, 1)) :
     l \in RateLimits}

\* one request over windows of several pages
PagedScenarios ==
  {Scenario("ok", UtcMidnight(2020, 1, 1), h, 0, l, Budget(1, 1, 1)) :
     h \in PagedHistories, l \in RateLimits}

\* one request over windows that reach the page cap
LongScenarios ==
  {Scenario("ok", IF Length(h) > MAX_PAGE * PER_PAGE THEN UtcMidnight(2021, 6, 1)
                                                      ELSE UtcMidnight(2020, 1, 1),
            h, 0, DEFAULT_RATE_LIMIT, Budget(1, 1, 0)) :
     h \in LongHistories}

Scenarios ==
  DataScenarios \cup SerialScenarios \cup ConcurrentScenarios \cup PagedScenarios
    \cup LongScenarios

Init ==
  \E s \in Scenarios :
    /\ now = Now0
    /\ tz = s.tz
    /\ upRepo = s.repo
    /\ upCreatedAt = s.createdAt
    /\ upHistory = s.history
    /\ budget = s.budget
    /\ cache = <<>>
    /\ requestCount = 0
    /\ lastResetTime = Now0
    /\ rateLimit = s.limit
    /\ call = [p \in Procs |-> Fresh]
    /\ fetchedAt = <<>>
    /\ returned = <<>>
    /\ http = NoHttp


(***************************************************************************)
(* getNewContributorsByMonth, getRepository, getCommits and                *)
(* getAllCommitsPaginated.  Node runs a callback to completion, so a step  *)
(* runs a caller from one wait (for the network or for a timer) to the     *)
(* next; only a page that the cache serves is a step of its own.           *)
(***************************************************************************)
\* The part of the state a caller's step works on.
Machine(p) ==
  [c |-> call[p], cache |-> cache, returned |-> returned,
   requestCount |-> requestCount, lastResetTime |-> lastResetTime]

Apply(p, m) ==
  /\ call' = [call EXCEPT ![p] = m.c]
  /\ cache' = m.cache
  /\ returned' = m.returned
  /\ requestCount' = m.requestCount
  /\ lastResetTime' = m.lastResetTime

\* While a caller is about to take a page from the cache nothing else happens.
Running(p) == call[p].pc = "getCommits"
MayRun(p) == \A o \in Procs \ {p} : ~Running(o)
Quiet == \A o \in Procs : ~Running(o)

\* A caller serves a request from Start until the response is sent; a new
\* request is taken by the first caller that serves none.
Busy(p) == call[p].pc \notin {"idle", "done", "failed"}

\* The log of the requests a call dispatched: runs of consecutive pages.
Logged(sent, req) ==
  IF /\ sent # <<>>
     /\ sent[Len(sent)].kind = req.kind
     /\ sent[Len(sent)].since = req.since
     /\ sent[Len(sent)].until = req.until
     /\ sent[Len(sent)].last + 1 = req.page
    THEN [sent EXCEPT ![Len(sent)].last = req.page]
    ELSE Append(sent, [kind |-> req.kind, since |-> req.since, until |-> req.until,
                       first |-> req.page, last |-> req.page])

Send_NeverResets(m, req, t) ==
  LET timeSinceReset == t - m.lastResetTime
  IN  IF m.requestCount >= rateLimit
        THEN [m EXCEPT !.c.pc = "rateWait", !.c.req = req,
                       !.c.wake = t + (HOUR - timeSinceReset)]
        ELSE [m EXCEPT !.requestCount = @ + 1,
                       !.c.pc = "inflight", !.c.req = req,
                       !.c.sent = Logged(@, req)]

\* githubServices.ts 70-76 and 122-137: the request interceptor, up to the
\* sleep of checkRateLimit or to the departure of the request
Send(m, req, t) ==
  LET timeSinceReset == t - m.lastResetTime
      reset == timeSinceReset >= HOUR
      count == IF reset THEN 0 ELSE m.requestCount
      since == IF reset THEN t ELSE m.lastResetTime
  IN  IF count >= rateLimit
        THEN [m EXCEPT !.requestCount = count, !.lastResetTime = since,
                       !.c.pc = "rateWait", !.c.req = req,
                       !.c.wake = t + (HOUR - timeSinceReset)]
        ELSE [m EXCEPT !.requestCount = count + 1, !.lastResetTime = since,
                       !.c.pc = "inflight", !.c.req = req,
                       !.c.sent = Logged(@, req)]

\* githubServices.ts 176-194: getCommits for the page the loop is at, up to
\* the cache hit or to the request
Proceed(m, t) ==
  IF Live(m.cache, CommitsKey(m.c.org, m.c.repo, m.c.since, m.c.until, m.c.page), t)
    THEN [m EXCEPT !.c.pc = "getCommits", !.c.req = NoRequest]
    ELSE Send(m, CommitsRequest(m.c.since, m.c.until, m.c.page), t)

Enter_AlwaysBaseline(m, createdAt, t) ==
  LET startDate == ClampStart(StartDate(m.c.year, m.c.month), createdAt)
      endDate   == EndDate(m.c.year, m.c.month, tz)
  IN  Proceed([m EXCEPT !.c.repoCreatedAt = createdAt,
                        !.c.startDate = startDate,
                        !.c.endDate = endDate,
                        !.c.phase = "before",
                        !.c.since = createdAt,
                        !.c.until = startDate,
                        !.c.page = 1, !.c.hasMore = TRUE, !.c.allCommits = <<>>], t)

\* githubServices.ts 231-284: from the repository to the first getCommits call
Enter(m, createdAt, t) ==
  LET startDate == ClampStart(StartDate(m.c.year, m.c.month), createdAt)
      endDate   == EndDate(m.c.year, m.c.month, tz)
      before    == startDate > createdAt
  IN  Proceed([m EXCEPT !.c.repoCreatedAt = createdAt,
                        !.c.startDate = startDate,
                        !.c.endDate = endDate,
                        !.c.phase = IF before THEN "before" ELSE "period",
                        !.c.since = IF before THEN createdAt ELSE startDate,
                        !.c.until = IF before THEN startDate ELSE endDate,
                        !.c.page = 1, !.c.hasMore = TRUE, !.c.allCommits = <<>>], t)

\* githubServices.ts 308-310, part_003 32-34, errorHandler.ts 24-54
Failed(m, msg) ==
  [m EXCEPT !.c.pc = "failed", !.c.req = NoRequest,
            !.c.cause = msg,
            !.c.error = AnalyzeFailed(msg),
            !.c.status = ErrorStatus(AnalyzeFailed(msg)),
            !.c.body = ErrorBody(AnalyzeFailed(msg))]

LoopBody_OnePage(c, commits) ==
  LET some == Length(commits) # 0
      page == IF some THEN c.page + 1 ELSE c.page
  IN  [c EXCEPT !.allCommits = IF some THEN Concat(c.allCommits, commits) ELSE c.allCommits,
                !.page = page,
                !.hasMore = FALSE,
                !.warned = IF page > MAX_PAGE THEN c.warned + 1 ELSE c.warned]

LoopBody_UntilEmpty(c, commits) ==
  LET some == Length(commits) # 0
      page == IF some THEN c.page + 1 ELSE c.page
  IN  [c EXCEPT !.allCommits = IF some THEN Concat(c.allCommits, commits) ELSE c.allCommits,
                !.page = page,
                !.hasMore = some,
                !.warned = IF page > MAX_PAGE THEN c.warned + 1 ELSE c.warned]

LoopBody_SkipsPage(c, commits) ==
  LET some == Length(commits) # 0
      page == IF some THEN c.page + 2 ELSE c.page
  IN  [c EXCEPT !.allCommits = IF some THEN Concat(c.allCommits, commits) ELSE c.allCommits,
                !.page = page,
                !.hasMore = some /\ ~(Length(commits) < PER_PAGE),
                !.warned = IF page > MAX_PAGE THEN c.warned + 1 ELSE c.warned]

\* githubServices.ts 326-342: the body of the while loop, given the page
LoopBody(c, commits) ==
  LET some == Length(commits) # 0
      page == IF some THEN c.page + 1 ELSE c.page
  IN  [c EXCEPT !.allCommits = IF some THEN Concat(c.allCommits, commits) ELSE c.allCommits,
                !.page = page,
                !.hasMore = some /\ ~(Length(commits) < PER_PAGE),
                !.warned = IF page > MAX_PAGE THEN c.warned + 1 ELSE c.warned]

LoopGoesOn_NoCap(c) == c.hasMore

\* githubServices.ts 323, 339-342
LoopGoesOn(c) == c.hasMore /\ ~(c.page > MAX_PAGE)

\* githubServices.ts 297-303
Result(c, new) ==
  [org |-> c.org, repository |-> c.repo, year |-> c.year, month |-> c.month,
   newContributors |-> Cardinality(new)]

\* githubServices.ts 264-307: what follows a page that getCommits returned:
\* the loop goes on, or the window is complete and the analysis moves to the
\* target window or ends (part_003 31, 60).
After(m, commits, t) ==
  LET c == LoopBody(m.c, commits)
  IN  IF LoopGoesOn(c)
        THEN Proceed([m EXCEPT !.c = c], t)
      ELSE IF c.phase = "before"
        THEN Proceed([m EXCEPT !.c =
                       [c EXCEPT !.beforePeriodCommits = c.allCommits,
                                 !.existingContributors = CollectExisting(c.allCommits, {}),
                                 !.phase = "period",
                                 !.since = c.startDate, !.until = c.endDate,
                                 !.page = 1, !.hasMore = TRUE, !.allCommits = <<>>]], t)
      ELSE LET f == FindNew(c.allCommits, c.existingContributors, {})
               result == Result(c, f.new)
           IN  [m EXCEPT !.c = [c EXCEPT !.periodCommits = c.allCommits,
                                         !.existingContributors = f.existing,
                                         !.newContributorsInPeriod = f.new,
                                         !.result = result, !.status = 200,
                                         !.req = NoRequest, !.pc = "done"],
                         !.cache = CacheSet(m.cache,
                                            ContributorsKey(c.org, c.repo, c.year, c.month),
                                            result, stdTTL, t),
                         !.returned = [k \in DOMAIN m.returned \cup {<<c.year, c.month>>} |->
                                         IF k = <<c.year, c.month>>
                                           THEN [v |-> result, at |-> t]
                                           ELSE m.returned[k]]]

\* part_003 14-65 and githubServices.ts 221-230, 148-156
Start(p, q) ==
  /\ ~Busy(p)
  /\ p <= budget.callers
  /\ \A o \in 1 .. p - 1 : Busy(o)
  /\ MayRun(p)
  /\ budget.calls > 0
  /\ budget' = [budget EXCEPT !.calls = @ - 1]
  /\ LET m == [Machine(p) EXCEPT !.c = [Fresh EXCEPT !.year = q.year, !.month = q.month]]
         cacheKey == ContributorsKey(m.c.org, m.c.repo, m.c.year, m.c.month)
         repoKey == RepoKey(m.c.org, m.c.repo)
     IN  IF Live(cache, cacheKey, now)
           THEN Apply(p, [m EXCEPT !.c.pc = "done", !.c.hit = TRUE,
                                   !.c.result = cache[cacheKey].v, !.c.status = 200])
         ELSE IF Live(cache, repoKey, now)
           THEN Apply(p, Enter(m, cache[repoKey].v.created_at, now))
         ELSE Apply(p, Send(m, RepoRequest, now))
  /\ UNCHANGED <<now, upRepo, upstream, fetchedAt>>

\* githubServices.ts 176-181: the cache serves the page
GetCommits(p) ==
  LET c == call[p]
      cacheKey == CommitsKey(c.org, c.repo, c.since, c.until, c.page)
  IN  /\ c.pc = "getCommits"
      /\ MayRun(p)
      /\ Live(cache, cacheKey, now)
      /\ Apply(p, After([Machine(p) EXCEPT !.c.pageHits = @ + 1], cache[cacheKey].v, now))
      /\ UNCHANGED <<http, now, upRepo, upstream, budget, fetchedAt>>

ReserveWake_KeepsCount(p) ==
  LET c == call[p]
  IN  /\ c.pc = "rateWait"
      /\ MayRun(p)
      /\ now' = Max(now, c.wake)
      /\ Apply(p, [Machine(p) EXCEPT !.requestCount = @ + 1, !.lastResetTime = now',
                                     !.c.pc = "inflight", !.c.sent = Logged(@, c.req)])
      /\ UNCHANGED <<http, upRepo, upstream, budget, fetchedAt>>

\* githubServices.ts 137-139 and 73-74: checkRateLimit after its sleep, and
\* the departure of the request
ReserveWake(p) ==
  LET c == call[p]
  IN  /\ c.pc = "rateWait"
      /\ MayRun(p)
      /\ now' = Max(now, c.wake)
      /\ Apply(p, [Machine(p) EXCEPT !.requestCount = 0 + 1, !.lastResetTime = now',
                                     !.c.pc = "inflight", !.c.sent = Logged(@, c.req)])
      /\ UNCHANGED <<http, upRepo, upstream, budget, fetchedAt>>

\* githubServices.ts 156-160 and 192-202: a successful response
RespondOk(p) ==
  LET c == call[p]
      m == Machine(p)
  IN  /\ c.pc = "inflight"
      /\ MayRun(p)
      /\ \/ /\ c.req.kind = "repo"
            /\ upRepo \in {"ok", "empty"}
            /\ fetchedAt' = Append(fetchedAt, now)
            /\ Apply(p, Enter([m EXCEPT !.cache =
                                 CacheSet(cache, RepoKey(c.org, c.repo),
                                          [created_at |-> upCreatedAt], stdTTL, now)],
                              upCreatedAt, now))
         \/ /\ c.req.kind = "commits"
            /\ upRepo = "ok"
            /\ fetchedAt' = fetchedAt
            /\ LET commits == UpstreamPage(upHistory, c.req.since, c.req.until, c.req.page)
                   cacheKey == CommitsKey(c.org, c.repo, c.req.since, c.req.until, c.req.page)
               IN  Apply(p, After([m EXCEPT !.cache =
                                     CacheSet(cache, cacheKey, commits,
                                              CommitsCacheTime(c.req.since, now), now)],
                                  commits, now))
      /\ UNCHANGED <<http, now, upRepo, upstream, budget>>

\* githubServices.ts 91-118, then the catch blocks 161-166 and 203-212
HandleError(p, err) ==
  LET m == [Machine(p) EXCEPT !.c.err = err]
      wait == ResendAfter(err, now)
  IN  IF wait >= 0
        THEN Apply(p, [m EXCEPT !.c.pc = "retryWait", !.c.wake = now + wait,
                                !.c.resends = @ + 1])
      ELSE IF m.c.req.kind = "repo"
        THEN Apply(p, Failed(m, RepositoryError(m.c.org, m.c.repo, err)))
      ELSE IF CommitsRecovered(err)
        THEN Apply(p, After(m, <<>>, now))
      ELSE Apply(p, Failed(m, CommitsError(m.c.org, m.c.repo, err)))

\* the upstream does not know the repository
RespondNotFound(p) ==
  /\ call[p].pc = "inflight"
  /\ MayRun(p)
  /\ upRepo = "missing"
  /\ HandleError(p, NotFoundReply)
  /\ UNCHANGED <<http, now, upRepo, upstream, budget, fetchedAt>>

\* the upstream repository has no commits
RespondEmpty(p) ==
  /\ call[p].pc = "inflight"
  /\ MayRun(p)
  /\ call[p].req.kind = "commits"
  /\ upRepo = "empty"
  /\ HandleError(p, EmptyRepoReply)
  /\ UNCHANGED <<http, now, upRepo, upstream, budget, fetchedAt>>

Faults ==
  {ServerErrorReply, ConnResetReply, TimeoutReply, QuotaReply(now + QuotaWait), QuotaReply(now),
   UnauthorizedReply, ForbiddenReply}

\* any request may fail for a reason of the network or of the upstream's quota
RespondFault(p, err) ==
  /\ call[p].pc = "inflight"
  /\ MayRun(p)
  /\ budget.events > 0
  /\ budget' = [budget EXCEPT !.events = @ - 1]
  /\ HandleError(p, err)
  /\ UNCHANGED <<http, now, upRepo, upstream, fetchedAt>>

RetryWake_Bypass(p) ==
  LET c == call[p]
  IN  /\ c.pc = "retryWait"
      /\ MayRun(p)
      /\ now' = Max(now, c.wake)
      /\ Apply(p, [Machine(p) EXCEPT !.c.pc = "inflight", !.c.sent = Logged(@, c.req)])
      /\ UNCHANGED <<http, upRepo, upstream, budget, fetchedAt>>

\* githubServices.ts 104-105 and 113-114: the sleep is over, the request is sent again
RetryWake(p) ==
  LET c == call[p]
  IN  /\ c.pc = "retryWait"
      /\ MayRun(p)
      /\ now' = Max(now, c.wake)
      /\ Apply(p, Send(Machine(p), c.req, now'))
      /\ UNCHANGED <<http, upRepo, upstream, budget, fetchedAt>>

\* time passes
Tick(d) ==
  /\ budget.events > 0
  /\ Quiet
  /\ budget' = [budget EXCEPT !.events = @ - 1]
  /\ now' = now + d
  /\ UNCHANGED <<http, upRepo, upstream, cache, requestCount, lastResetTime, call, fetchedAt,
                 returned>>

\* the repository is deleted upstream
UpstreamDelete ==
  /\ budget.events > 0
  /\ Quiet
  /\ upRepo # "missing"
  /\ budget' = [budget EXCEPT !.events = @ - 1]
  /\ upRepo' = "missing"
  /\ UNCHANGED <<http, now, upstream, cache, requestCount, lastResetTime, call, fetchedAt,
                 returned>>

Next ==
  \/ \E p \in Procs, q \in Queries : Start(p, q) /\ UNCHANGED http
  \/ \E p \in Procs : GetCommits(p)
  \/ \E p \in Procs : ReserveWake(p)
  \/ \E p \in Procs : RespondOk(p)
  \/ \E p \in Procs : RespondNotFound(p)
  \/ \E p \in Procs : RespondEmpty(p)
  \/ \E p \in Procs : \E err \in Faults : RespondFault(p, err)
  \/ \E p \in Procs : RetryWake(p)
  \/ \E d \in Deltas : Tick(d)
  \/ UpstreamDelete

Spec == Init /\ [][Next]_vars


(***************************************************************************)
(* Properties                                                              *)
(***************************************************************************)
\* The windows an analysis of (year, month) asks the upstream for, and what
\* the upstream holds in them.
TargetStart(year, month) == ClampStart(StartDate(year, month), upCreatedAt)
TargetWindow(year, month) ==
  InWindow(upHistory, TargetStart(year, month), EndDate(year, month, tz))
BaselineWindow(year, month) ==
  IF TargetStart(year, month) > upCreatedAt
    THEN InWindow(upHistory, upCreatedAt, TargetStart(year, month))
    ELSE <<>>

PresentLogins(list) ==
  {a \in Logins : \E i \in 1 .. Len(list) : list[i].author = a}

ExpectedNew(year, month) ==
  Cardinality(PresentLogins(TargetWindow(year, month))
                \ PresentLogins(BaselineWindow(year, month)))

Cap == MAX_PAGE * PER_PAGE
WithinCap(year, month) ==
  /\ Length(TargetWindow(year, month)) <= Cap
  /\ Length(BaselineWindow(year, month)) <= Cap

Done(p) == call[p].pc = "done"
Computed(p) == call[p].pc = "done" /\ ~call[p].hit

C2_NoAbsentIdentity ==
  \A p \in Procs :
    /\ NoAuthor \notin call[p].existingContributors \cup call[p].newContributorsInPeriod
    /\ "" \notin call[p].existingContributors \cup call[p].newContributorsInPeriod
    /\ call[p].existingContributors \cup call[p].newContributorsInPeriod \subseteq Logins
    /\ Computed(p) =>
         /\ call[p].newContributorsInPeriod \subseteq PresentLogins(call[p].periodCommits)
         /\ call[p].result.newContributors = Cardinality(call[p].newContributorsInPeriod)

\* a target window whose commits all lack a login gives 0
C2_Witness ==
  \E p \in Procs :
    /\ Computed(p)
    /\ call[p].periodCommits # <<>>
    /\ \A i \in 1 .. Len(call[p].periodCommits) : call[p].periodCommits[i].author \in {NoAuthor, ""}
    /\ \E i \in 1 .. Len(call[p].periodCommits) : call[p].periodCommits[i].author = NoAuthor
    /\ \E i \in 1 .. Len(call[p].periodCommits) : call[p].periodCommits[i].author = ""
    /\ call[p].result.newContributors = 0


\* The caller that takes the next request, and whether a step started one.
NextCaller == CHOOSE p \in Procs : ~Busy(p) /\ \A o \in 1 .. p - 1 : Busy(o)
Started == budget'.calls < budget.calls

\* C3: once an analysis of (org, repo, year, month) has returned a result, a
\* later call with the same parameters made no later than the TTL after it is
\* answered with the same result without any upstream request (nothing sent,
\* rate counter and window unchanged, cache unchanged); a call made after the
\* TTL has run out computes the result anew.
C3_Idempotent ==
  [][Started =>
       LET p == NextCaller
           k == <<call'[p].year, call'[p].month>>
       IN  k \in DOMAIN returned =>
             IF now <= returned[k].at + stdTTL
               THEN /\ call'[p].pc = "done"
                    /\ call'[p].result = returned[k].v
                    /\ call'[p].sent = <<>>
                    /\ requestCount' = requestCount
                    /\ lastResetTime' = lastResetTime
                    /\ cache' = cache
                    /\ fetchedAt' = fetchedAt
               ELSE /\ call'[p].pc \in {"inflight", "rateWait", "getCommits"}
                    /\ ~call'[p].hit]_vars

\* a repeated call, made later, is answered from the cache
C3_Witness ==
  \E p \in Procs :
    /\ Done(p) /\ call[p].hit /\ call[p].sent = <<>>
    /\ <<call[p].year, call[p].month>> \in DOMAIN returned
    /\ returned[<<call[p].year, call[p].month>>].at < now
    /\ call[p].result = returned[<<call[p].year, call[p].month>>].v
    /\ call[p].result.newContributors = 2

ResultEntries(c) == {<<k, c[k]>> : k \in {j \in DOMAIN c : j[1] = "contributors"}}

\* C4: an analysis whose repository lookup or page fetch fails raises
\* "Failed to analyze contributors: " followed by the message of that failure,
\* returns no result, and leaves the cached results as they were.
C4_FailureWrapped ==
  /\ [](\A p \in Procs :
          call[p].pc = "failed" =>
            LET c == call[p]
                last == c.sent[Len(c.sent)]
            IN  /\ c.error = <<"Failed", "to", "analyze", "contributors:">> \o c.cause
                /\ c.cause =
                     IF c.err.status = 404
                       THEN <<"Repository", c.org, "/", c.repo, "not", "found">>
                     ELSE IF last.kind = "repo"
                       THEN <<"Failed", "to", "fetch", "repository:">> \o c.err.message
                     ELSE <<"Failed", "to", "fetch", "commits:">> \o c.err.message
                /\ c.err.message # <<>>
                /\ c.result = NoResult
                /\ c.status >= 400
                /\ <<c.year, c.month>> \notin DOMAIN returned
                     => ContributorsKey(c.org, c.repo, c.year, c.month) \notin DOMAIN cache)
  /\ [][\A p \in Procs :
          call'[p].pc = "failed" /\ call[p].pc # "failed"
            => ResultEntries(cache') = ResultEntries(cache)]_vars

\* a page fetch of the target window times out after the baseline was fetched
C4_Witness ==
  \E p \in Procs :
    /\ call[p].pc = "failed"
    /\ call[p].phase = "period"
    /\ call[p].beforePeriodCommits # <<>>
    /\ call[p].error = <<"Failed", "to", "analyze", "contributors:", "Failed", "to",
                         "fetch", "commits:", "timeout", "of", "30000ms", "exceeded">>

\* C5: a 404 to the repository lookup or to a page request fails the operation
\* at once (no resend) with "Repository {org}/{repo} not found"; the error that
\* reaches the error handler contains that text and is answered 404 with the
\* error's message as the message.
C5_NotFound ==
  \A p \in Procs :
    call[p].err.status = 404 =>
      /\ call[p].pc = "failed"
      /\ call[p].cause = <<"Repository", call[p].org, "/", call[p].repo, "not", "found">>
      /\ Includes(call[p].error, call[p].cause)
      /\ call[p].status = 404
      /\ call[p].body = call[p].error

\* the repository disappears between the lookup and a page request
C5_Witness ==
  \E p \in Procs :
    /\ call[p].err.status = 404
    /\ call[p].sent[Len(call[p].sent)].kind = "commits"
    /\ call[p].status = 404
    /\ call[p].body = <<"Failed", "to", "analyze", "contributors:", "Repository", "octo",
                        "/", "demo", "not", "found">>

\* C6 (as stated): every result returned or cached was computed from the
\* complete commit lists of the baseline and of the target window.
C6_AsStated ==
  \A p \in Procs :
    Computed(p) =>
      /\ call[p].periodCommits = TargetWindow(call[p].year, call[p].month)
      /\ call[p].beforePeriodCommits = BaselineWindow(call[p].year, call[p].month)

\* C6 (amended): every result returned or cached was computed from the first
\* 1000 pages (100000 commits) of the baseline and of the target window, so
\* from the complete lists when neither window is longer; a result enters the
\* cache only as the result of an analysis that ran to its end.
C6_Complete ==
  /\ [](\A p \in Procs :
          Computed(p) =>
            /\ call[p].periodCommits = Take(TargetWindow(call[p].year, call[p].month), Cap)
            /\ call[p].beforePeriodCommits =
                 Take(BaselineWindow(call[p].year, call[p].month), Cap))
  /\ [][ResultEntries(cache') # ResultEntries(cache) =>
          \E p \in Procs :
            /\ Busy(p) /\ call'[p].pc = "done" /\ ~call'[p].hit
            /\ LET k == ContributorsKey(call'[p].org, call'[p].repo, call'[p].year,
                                        call'[p].month)
               IN  /\ cache'[k].v = call'[p].result
                   /\ \A j \in DOMAIN cache' \ {k} :
                        j[1] = "contributors" => j \in DOMAIN cache /\ cache'[j] = cache[j]]_vars

\* a target window of three pages
C6_Witness ==
  \E p \in Procs :
    /\ Computed(p)
    /\ Length(call[p].periodCommits) = 2 * PER_PAGE + 37
    /\ call[p].periodCommits = TargetWindow(call[p].year, call[p].month)
    /\ call[p].beforePeriodCommits # <<>>

\* C7: repository metadata is fetched from the upstream at most once per TTL
\* window, whatever the interleaving of the calls.
C7_OneFetchPerWindow ==
  \A i, j \in DOMAIN fetchedAt :
    i < j => fetchedAt[j] > fetchedAt[i] + stdTTL

\* The runs of pages a call requested of the window [since, until].
PagesSent(c, since, until) ==
  SelectSeq(c.sent, LAMBDA r : r.kind = "commits" /\ r.since = since /\ r.until = until)

\* list is the concatenation of pages 1 .. k of the window [since, until]
IsPages(list, history, since, until, k) ==
  /\ \A i \in 1 .. k : PageOf(list, i) = UpstreamPage(history, since, until, i)
  /\ Length(list) <= k * PER_PAGE

PagesNeeded(window) == Length(window) \div PER_PAGE + 1

\* C8: with nothing cached and no resend, a window whose pages have sizes
\* 100, ..., 100, s (s < 100, k pages, k <= 1000) is fetched with exactly the k
\* requests for pages 1, ..., k in this order, and the list returned is the
\* concatenation of these pages.
C8_Pagination ==
  \A p \in Procs :
    Computed(p) /\ call[p].pageHits = 0 /\ call[p].resends = 0 /\ upRepo = "ok" =>
      LET c == call[p]
          target == TargetWindow(c.year, c.month)
          baseline == BaselineWindow(c.year, c.month)
      IN  /\ PagesNeeded(target) <= MAX_PAGE =>
               /\ PagesSent(c, c.startDate, c.endDate) =
                    <<[kind |-> "commits", since |-> c.startDate, until |-> c.endDate,
                       first |-> 1, last |-> PagesNeeded(target)]>>
               /\ IsPages(c.periodCommits, upHistory, c.startDate, c.endDate,
                           PagesNeeded(target))
               /\ Length(c.periodCommits) = Length(target)
          /\ c.startDate > c.repoCreatedAt /\ PagesNeeded(baseline) <= MAX_PAGE =>
               /\ PagesSent(c, c.repoCreatedAt, c.startDate) =
                    <<[kind |-> "commits", since |-> c.repoCreatedAt, until |-> c.startDate,
                       first |-> 1, last |-> PagesNeeded(baseline)]>>
               /\ IsPages(c.beforePeriodCommits, upHistory, c.repoCreatedAt, c.startDate,
                           PagesNeeded(baseline))
               /\ Length(c.beforePeriodCommits) = Length(baseline)

\* pages of 100, 100 and 37 commits: 3 requests, 237 commits
C8_Witness ==
  \E p \in Procs :
    /\ Computed(p) /\ call[p].pageHits = 0 /\ call[p].resends = 0
    /\ Length(call[p].periodCommits) = 237
    /\ \E r \in {call[p].sent[i] : i \in 1 .. Len(call[p].sent)} :
         r.kind = "commits" /\ r.since = call[p].startDate /\ r.first = 1 /\ r.last = 3

\* C9: no page above 1000 is ever requested; the page counter of a window
\* grows by one with every page taken and never passes 1001, so a window takes
\* at most 1000 page requests; a window of more than 1000 full pages is returned
\* as its first 100000 commits, with the page-limit warning.
C9_PageCap ==
  /\ [](\A p \in Procs :
          LET c == call[p]
          IN  /\ \A i \in 1 .. Len(c.sent) : c.sent[i].last <= MAX_PAGE
              /\ c.req.page <= MAX_PAGE
              /\ c.page <= MAX_PAGE + 1
              /\ Computed(p) /\ Length(TargetWindow(c.year, c.month)) >= Cap =>
                   /\ Length(c.periodCommits) = Cap
                   /\ c.warned >= 1
                   /\ \E i \in 1 .. Len(c.sent) :
                        c.sent[i].since = c.startDate /\ c.sent[i].last = MAX_PAGE)
  /\ [][\A p \in Procs :
          /\ call'[p] # call[p]
          /\ call[p].pc \in {"inflight", "getCommits"}
          /\ call'[p].pc \in {"inflight", "getCommits", "rateWait"}
          /\ call[p].phase \in {"before", "period"}
          /\ call'[p].phase = call[p].phase
          => call'[p].page = call[p].page + 1]_vars

\* a target window of 100001 commits
C9_Witness ==
  \E p \in Procs :
    /\ Computed(p)
    /\ Length(TargetWindow(call[p].year, call[p].month)) > Cap
    /\ Length(call[p].periodCommits) = Cap
    /\ call[p].warned = 1
    /\ call[p].page = MAX_PAGE + 1

\* C10: a 409 to a page request makes getCommits return the empty list: the
\* call neither fails nor resends, the window is returned empty after that one
\* request, and the analysis of an empty repository returns 0.
C10_EmptyRepository ==
  \A p \in Procs :
    LET c == call[p]
    IN  /\ c.err.status = 409 => c.pc \notin {"failed", "retryWait"}
        /\ Computed(p) /\ upRepo = "empty" =>
             /\ c.periodCommits = <<>>
             /\ c.beforePeriodCommits = <<>>
             /\ c.result.newContributors = 0
             /\ c.resends = 0 /\ c.pageHits = 0 =>
                  /\ Len(PagesSent(c, c.startDate, c.endDate)) = 1
                  /\ \A i \in 1 .. Len(c.sent) :
                       c.sent[i].kind = "commits" => c.sent[i].first = 1 /\ c.sent[i].last = 1

\* both windows of an empty repository are answered 409
C10_Witness ==
  \E p \in Procs :
    /\ Computed(p) /\ upRepo = "empty"
    /\ call[p].err.status = 409
    /\ call[p].resends = 0 /\ call[p].pageHits = 0
    /\ Len(call[p].sent) = 3
    /\ call[p].result.newContributors = 0

\* A step in which caller p brings a request to the rate governor, and one in
\* which the request leaves for the upstream.
Reaches(p) ==
  /\ call'[p] # call[p]
  /\ call[p].pc # "rateWait"
  /\ call'[p].pc \in {"inflight", "rateWait"}
Dispatches(p) ==
  /\ call'[p] # call[p]
  /\ call'[p].pc = "inflight"

\* C11: with a single caller, a request that reaches the rate governor is
\* suspended exactly when requestCount has reached the limit within the
\* running window (so the first `limit` requests of a window pass at once);
\* it is then suspended until one hour after windowStart, and on waking it is
\* dispatched with windowStart set to the wake-up time and requestCount = 1.
C11_RateGovernor ==
  [][budget.callers = 1 =>
       \A p \in Procs :
         /\ Reaches(p) =>
              /\ call'[p].pc = "rateWait"
                   <=> requestCount >= rateLimit /\ now' - lastResetTime < HOUR
              /\ call'[p].pc = "rateWait" =>
                   /\ call'[p].wake = lastResetTime + HOUR
                   /\ call'[p].wake > now'
                   /\ requestCount' = requestCount /\ lastResetTime' = lastResetTime
              /\ call'[p].pc = "inflight" => requestCount' <= rateLimit
         /\ call[p].pc = "rateWait" /\ call'[p].pc = "inflight" =>
              /\ now' >= call[p].wake
              /\ lastResetTime' = now'
              /\ requestCount' = 1]_vars

\* with a limit of 1 the second request of a call waited until the hour was over
C11_Witness ==
  \E p \in Procs :
    /\ budget.callers = 1 /\ rateLimit = 1
    /\ call[p].pc = "inflight"
    /\ call[p].req.kind = "commits"
    /\ call[p].resends = 0
    /\ now = Now0 + HOUR
    /\ lastResetTime = now
    /\ requestCount = 1

\* A step in which caller p receives an error reply to the request in flight:
\* a fault of the environment, or the answer of an upstream that does not know
\* the repository or holds no commit of it.
ErrorStep(p) ==
  /\ call[p].pc = "inflight"
  /\ call'[p] # call[p]
  /\ \/ budget'.events < budget.events
     \/ upRepo = "missing"
     \/ upRepo = "empty" /\ call[p].req.kind = "commits"

QuotaSignal(err) == err.status = 403 /\ err.remaining = "0"
TransientSignal(err) == err.status >= 500 \/ err.code = "ECONNRESET"

\* C12: a reply of status 403 with x-ratelimit-remaining "0" never fails the
\* caller: no call ends with that reply as its error.
C12_QuotaNeverSurfaced ==
  \A p \in Procs : call[p].pc = "failed" => ~QuotaSignal(call[p].err)

\* C13: every transient failure (status >= 500 or ECONNRESET) of a request or
\* of a resend is followed by a wait of one second and a resend of the same
\* request, however many came before; no call fails with a transient failure,
\* and the call goes on as soon as an attempt succeeds.
C13_TransientResend ==
  /\ [](\A p \in Procs : call[p].pc = "failed" => ~TransientSignal(call[p].err))
  /\ [][\A p \in Procs :
          /\ ErrorStep(p) /\ TransientSignal(call'[p].err) =>
               /\ call'[p].pc = "retryWait"
               /\ call'[p].wake = now + RETRY_DELAY
               /\ call'[p].req = call[p].req
               /\ call'[p].resends = call[p].resends + 1
          /\ call[p].pc = "retryWait" /\ call'[p] # call[p] =>
               /\ now' >= call[p].wake
               /\ call'[p].pc \in {"inflight", "rateWait"}
               /\ call'[p].req = call[p].req]_vars

\* an analysis completes after two transient failures in a row
C13_Witness ==
  \E p \in Procs :
    /\ Computed(p)
    /\ call[p].resends = 2
    /\ TransientSignal(call[p].err)
    /\ budget.events = 0
    /\ now = Now0 + 2 * RETRY_DELAY
    /\ call[p].result.newContributors = 2

\* C14: an error reply that is neither a quota signal nor a transient failure
\* reaches the caller of the transport at once and as it is: no wait, no
\* resend, the clock and the request count of that request untouched; the
\* caller's catch block decides by its status and message.
C14_OtherErrorsPropagate ==
  [][\A p \in Procs :
       ErrorStep(p) /\ ~QuotaSignal(call'[p].err) /\ ~TransientSignal(call'[p].err) =>
         LET c == call'[p]
             recovered == c.err.status = 409 /\ call[p].req.kind = "commits"
         IN  /\ c.pc # "retryWait"
             /\ c.resends = call[p].resends
             /\ now' = now
             /\ ~recovered =>
                  /\ c.pc = "failed"
                  /\ c.wake = call[p].wake
                  /\ requestCount' = requestCount
                  /\ c.sent = call[p].sent
                  /\ c.cause =
                       IF c.err.status = 404
                         THEN <<"Repository", c.org, "/", c.repo, "not", "found">>
                       ELSE (IF call[p].req.kind = "repo"
                               THEN <<"Failed", "to", "fetch", "repository:">>
                               ELSE <<"Failed", "to", "fetch", "commits:">>) \o c.err.message
             /\ recovered => c.pc # "failed" /\ c.req # call[p].req]_vars

\* a 401 and a 403 with quota left fail the call after its only request
C14_Witness ==
  \E p \in Procs :
    /\ call[p].pc = "failed"
    /\ call[p].err.status = 403 /\ call[p].err.remaining # "0"
    /\ call[p].resends = 0
    /\ Len(call[p].sent) = 1
    /\ call[p].cause = <<"Failed", "to", "fetch", "repository:", "Request", "failed", "with",
                         "status", "code", "403">>

IsBaselineRun(c, r) ==
  r.kind = "commits" /\ r.since = c.repoCreatedAt /\ r.until = c.startDate
IsTargetRun(c, r) ==
  r.kind = "commits" /\ r.since = c.startDate /\ r.until = c.endDate

\* C15 (as stated): when the requested start is at or before createdAt, every
\* distinct present login of the target window is counted as new.
C15_AsStated ==
  \A p \in Procs :
    Computed(p) /\ StartDate(call[p].year, call[p].month) <= call[p].repoCreatedAt =>
      call[p].result.newContributors =
        Cardinality(PresentLogins(TargetWindow(call[p].year, call[p].month)))

\* C15 (amended): when the requested start is at or before createdAt the
\* clamped start is createdAt, no page of a baseline window is requested, the
\* baseline set is empty and every present login of the commits fetched for the
\* target window (all of the window when it holds at most 100000 commits)
\* counts as new; when the clamped start is after createdAt the baseline
\* window [createdAt, start] is fetched before the target window.
C15_BaselineSkipped ==
  \A p \in Procs :
    LET c == call[p]
    IN  c.phase \in {"before", "period"} =>
          /\ c.phase = "before" => c.startDate > c.repoCreatedAt
          /\ StartDate(c.year, c.month) <= c.repoCreatedAt =>
               /\ c.startDate = c.repoCreatedAt
               /\ \A i \in 1 .. Len(c.sent) :
                    c.sent[i].kind = "commits" => IsTargetRun(c, c.sent[i])
               /\ c.beforePeriodCommits = <<>>
               /\ c.pc # "done" => c.existingContributors = {}
               /\ Computed(p) =>
                    /\ c.newContributorsInPeriod = PresentLogins(c.periodCommits)
                    /\ c.result.newContributors = Cardinality(PresentLogins(c.periodCommits))
                    /\ c.periodCommits = Take(TargetWindow(c.year, c.month), Cap)
          /\ StartDate(c.year, c.month) > c.repoCreatedAt =>
               /\ c.startDate = StartDate(c.year, c.month)
               /\ c.pageHits = 0 /\ c.phase = "period" =>
                    \E i \in 1 .. Len(c.sent) :
                      /\ IsBaselineRun(c, c.sent[i])
                      /\ \A j \in 1 .. i : ~IsTargetRun(c, c.sent[j])
               /\ c.phase = "before" =>
                    \A i \in 1 .. Len(c.sent) : ~IsTargetRun(c, c.sent[i])

\* the repository was created at the start of June 2021: b, c and d are new
C15_Witness ==
  \E p \in Procs :
    /\ Computed(p)
    /\ call[p].month = <<"6">>
    /\ call[p].repoCreatedAt = UtcMidnight(2021, 6, 1)
    /\ call[p].startDate = call[p].repoCreatedAt
    /\ \A i \in 1 .. Len(call[p].sent) : ~IsBaselineRun(call[p], call[p].sent[i])
    /\ call[p].result.newContributors = 3

\* The first instant of the month after (y, m), or of the year after y.
NextMonthStart(y, m) ==
  IF m = 12 THEN UtcMidnight(y + 1, 1, 1) ELSE UtcMidnight(y, m + 1, 1)

\* The calendar period of a request on the clock that runs k seconds ahead
\* of UTC: its first instant and its last second.
PeriodOn(year, month, k) ==
  IF month # <<>>
    THEN LET m == MonthNumber(PadStart2(month))
         IN  [start |-> UtcMidnight(year, m, 1) - k, end |-> NextMonthStart(year, m) - 1 - k]
    ELSE [start |-> UtcMidnight(year, 1, 1) - k, end |-> UtcMidnight(year + 1, 1, 1) - 1 - k]

\* C16: for every offset of the process's local time, the unclamped period of
\* an analysis is the requested calendar month (or year): its start is the
\* first instant and its end the last second of that month (year), both on one
\* clock, UTC or local time.
C16_CalendarPeriod ==
  \A p \in Procs :
    call[p].phase \in {"before", "period"} =>
      \E k \in {0, tz} :
        /\ StartDate(call[p].year, call[p].month) = PeriodOn(call[p].year, call[p].month, k).start
        /\ call[p].endDate = PeriodOn(call[p].year, call[p].month, k).end

(***************************************************************************)
(* validateParams and the routes.  A path parameter is the sequence of its *)
(* characters; the absent month is the empty sequence.                     *)
(***************************************************************************)
MAX_ORG_LENGTH == 39
MAX_REPO_LENGTH == 100
FIRST_YEAR == 2008

DecimalDigits == <<"0", "1", "2", "3", "4", "5", "6", "7", "8", "9">>
HexLetters == <<"a", "b", "c", "d", "e", "f">>
HexCapitals == <<"A", "B", "C", "D", "E", "F">>
Letters ==
  {"a", "b", "c", "d", "e", "f", "g", "h", "i", "j", "k", "l", "m", "n", "o", "p", "q", "r",
   "s", "t", "u", "v", "w", "x", "y", "z",
   "A", "B", "C", "D", "E", "F", "G", "H", "I", "J", "K", "L", "M", "N", "O", "P", "Q", "R",
   "S", "T", "U", "V", "W", "X", "Y", "Z"}

IndexIn(seq, ch) == CHOOSE i \in DOMAIN seq : seq[i] = ch
Occurs(seq, ch) == \E i \in DOMAIN seq : seq[i] = ch

\* The value of a character as a digit of the radix, or -1 when it is none.
DigitOf(ch, radix) ==
  IF Occurs(DecimalDigits, ch) THEN IndexIn(DecimalDigits, ch) - 1
  ELSE IF radix = 16 /\ Occurs(HexLetters, ch) THEN IndexIn(HexLetters, ch) + 9
  ELSE IF radix = 16 /\ Occurs(HexCapitals, ch) THEN IndexIn(HexCapitals, ch) + 9
  ELSE -1

NaN == [nan |-> TRUE, n |-> 0]
Number(n) == [nan |-> FALSE, n |-> n]

RECURSIVE SkipWhiteSpace(_)
SkipWhiteSpace(s) ==
  IF s # <<>> /\ Head(s) = " " THEN SkipWhiteSpace(Tail(s)) ELSE s

\* The longest prefix of digits of the radix, read as a number; none is NaN.
RECURSIVE ParseDigits(_, _, _, _)
ParseDigits(s, radix, acc, seen) ==
  IF s # <<>> /\ DigitOf(Head(s), radix) >= 0
    THEN ParseDigits(Tail(s), radix, acc * radix + DigitOf(Head(s), radix), TRUE)
    ELSE IF seen THEN Number(acc) ELSE NaN

\* parseInt(string) with no radix: leading white space, a sign, a 0x prefix
\* for radix 16, then the longest prefix of digits; what follows is ignored.
ParseInt(string) ==
  LET s == SkipWhiteSpace(string)
      negative == s # <<>> /\ Head(s) = "-"
      t == IF s # <<>> /\ Head(s) \in {"+", "-"} THEN Tail(s) ELSE s
      hex == Len(t) >= 2 /\ t[1] = "0" /\ t[2] \in {"x", "X"}
      r == IF hex THEN ParseDigits(Tail(Tail(t)), 16, 0, FALSE) ELSE ParseDigits(t, 10, 0, FALSE)
  IN  IF r.nan THEN NaN ELSE Number(IF negative THEN 0 - r.n ELSE r.n)

\* /^[a-zA-Z0-9._-]+$/
GithubNamePattern(name) ==
  /\ name # <<>>
  /\ \A i \in DOMAIN name :
       \/ name[i] \in Letters
       \/ Occurs(DecimalDigits, name[i])
       \/ name[i] \in {".", "_", "-"}

\* new Date().getFullYear(): the year of the local time
CurrentYear(t, offset) == LocalFields(t, offset).year

\* new Date(yearNum, monthNum - 1): local midnight of the first of the month
TargetDate(yearNum, monthNum, offset) == UtcMidnight(yearNum, monthNum, 1) - offset

Rejected(error) == [next |-> FALSE, status |-> 400, error |-> error]
Accepted == [next |-> TRUE, status |-> 0, error |-> ""]

\* errorHandler.ts 59-139, the checks in the order of the code
ValidateParams_MonthFirst(org, repo, year, month, t, offset) ==
  LET yearNum == ParseInt(year)
      monthNum == ParseInt(month)
      currentYear == CurrentYear(t, offset)
  IN  IF org = <<>> \/ Len(org) < 1 \/ Len(org) > MAX_ORG_LENGTH
        THEN Rejected("Invalid organization name")
      ELSE IF repo = <<>> \/ Len(repo) < 1 \/ Len(repo) > MAX_REPO_LENGTH
        THEN Rejected("Invalid repository name")
      ELSE IF month # <<>> /\ (monthNum.nan \/ monthNum.n < 1 \/ monthNum.n > 12)
        THEN Rejected("Invalid month")
      ELSE IF yearNum.nan \/ yearNum.n < FIRST_YEAR \/ yearNum.n > currentYear
        THEN Rejected("Invalid year")
      ELSE IF month # <<>> /\ TargetDate(yearNum.n, monthNum.n, offset) > t
        THEN Rejected("Invalid date")
      ELSE IF ~GithubNamePattern(org)
        THEN Rejected("Invalid organization name format")
      ELSE IF ~GithubNamePattern(repo)
        THEN Rejected("Invalid repository name format")
      ELSE Accepted

ValidateParams(org, repo, year, month, t, offset) ==
  LET yearNum == ParseInt(year)
      monthNum == ParseInt(month)
      currentYear == CurrentYear(t, offset)
  IN  IF org = <<>> \/ Len(org) < 1 \/ Len(org) > MAX_ORG_LENGTH
        THEN Rejected("Invalid organization name")
      ELSE IF repo = <<>> \/ Len(repo) < 1 \/ Len(repo) > MAX_REPO_LENGTH
        THEN Rejected("Invalid repository name")
      ELSE IF yearNum.nan \/ yearNum.n < FIRST_YEAR \/ yearNum.n > currentYear
        THEN Rejected("Invalid year")
      ELSE IF month # <<>> /\ (monthNum.nan \/ monthNum.n < 1 \/ monthNum.n > 12)
        THEN Rejected("Invalid month")
      ELSE IF month # <<>> /\ TargetDate(yearNum.n, monthNum.n, offset) > t
        THEN Rejected("Invalid date")
      ELSE IF ~GithubNamePattern(org)
        THEN Rejected("Invalid organization name format")
      ELSE IF ~GithubNamePattern(repo)
        THEN Rejected("Invalid repository name format")
      ELSE Accepted

\* Requests: names of the repository the upstream holds, names that are too
\* long or hold a character outside the pattern, years and months that are
\* numerals, numerals with a tail, out of range, or no numerals at all.
LongName(n) == [i \in 1 .. n |-> "a"]
OrgChars == <<"o", "c", "t", "o">>
RepoChars == <<"d", "e", "m", "o">>
RouteOrgs == {OrgChars, LongName(MAX_ORG_LENGTH + 1), <<"o", "!">>}
RouteRepos == {RepoChars, LongName(MAX_REPO_LENGTH + 1), <<"d", "~">>}
RouteYears ==
  {<<"2", "0", "2", "1">>, <<"2", "0", "2", "1", "a", "b", "c">>, <<"2", "0", "0", "7">>,
   <<"2", "0", "0", "8">>, <<"2", "0", "2", "4">>, <<"2", "0", "2", "5">>,
   <<"2", "0", "5", "0">>, <<"a", "b", "c">>, <<"0", "x", "7", "E", "5">>}
RouteMonths ==
  {<<>>, <<"6">>, <<"0", "6">>, <<"1">>, <<"2">>, <<"1", "3">>, <<"0">>, <<"6", "x">>, <<"x">>}
Requests ==
  [org : RouteOrgs, repo : RouteRepos, year : RouteYears, month : RouteMonths]
RouteTimes == {Now0, UtcMidnight(2025, 1, 1) + 3 * 3600}

RECURSIVE Join(_)
Join(chars) == IF chars = <<>> THEN "" ELSE Head(chars) \o Join(Tail(chars))

\* A year written as four decimal digits is held as its number, as in Queries.
IsNumeral(s) == s # <<>> /\ \A i \in DOMAIN s : DigitOf(s[i], 10) >= 0
QueryOf(r) ==
  [year |-> IF IsNumeral(r.year) /\ Len(r.year) = 4 THEN ParseInt(r.year).n ELSE r.year,
   month |-> r.month]

\* part_003 14-65 with errorHandler.ts 59-139: the middleware answers 400, or
\* calls next, and the route handler calls getNewContributorsByMonth, which
\* runs to its first wait.
Route(r) ==
  LET v == ValidateParams(r.org, r.repo, r.year, r.month, now, tz)
  IN  /\ budget.calls > 0
      /\ Quiet
      /\ IF v.next
           THEN /\ Join(r.org) = ORG
                /\ Join(r.repo) = REPO
                /\ \E p \in Procs : Start(p, QueryOf(r))
                /\ http' = [req |-> r, sent |-> <<>>, next |-> 1, service |-> 1]
           ELSE /\ http' = [req |-> r, sent |-> <<[status |-> v.status, error |-> v.error]>>,
                            next |-> 0, service |-> 0]
                /\ budget' = [budget EXCEPT !.calls = @ - 1]
                /\ UNCHANGED <<now, upRepo, upstream, cache, requestCount, lastResetTime, call,
                               fetchedAt, returned>>

InitRoute ==
  \E t \in RouteTimes, o \in Offsets :
    /\ now = t
    /\ tz = o
    /\ upRepo = "ok"
    /\ upCreatedAt = UtcMidnight(2020, 1, 1)
    /\ upHistory = ExampleHistory
    /\ budget = Budget(1, 1, 0)
    /\ cache = <<>>
    /\ requestCount = 0
    /\ lastResetTime = t
    /\ rateLimit = DEFAULT_RATE_LIMIT
    /\ call = [p \in Procs |-> Fresh]
    /\ fetchedAt = <<>>
    /\ returned = <<>>
    /\ http = NoHttp

NextRoute == \E r \in Requests : Route(r)

SpecRoute == InitRoute /\ [][NextRoute]_vars

\* A request has been routed: the middleware has answered it or called next.
Routed == http.next > 0 \/ Len(http.sent) > 0

\* The parameter is a decimal integer of lo .. hi.
IsIntegerIn(s, lo, hi) == IsNumeral(s) /\ ParseInt(s).n >= lo /\ ParseInt(s).n <= hi

\* The request fails one of the checks that the parameters' description
\* names, at time t in a process whose local time is offset from UTC.
FailsACheck(r, t, offset) ==
  \/ Len(r.org) < 1 \/ Len(r.org) > MAX_ORG_LENGTH
  \/ Len(r.repo) < 1 \/ Len(r.repo) > MAX_REPO_LENGTH
  \/ ~IsIntegerIn(r.year, FIRST_YEAR, CurrentYear(t, offset))
  \/ r.month # <<>> /\ ~IsIntegerIn(r.month, 1, 12)
  \/ r.month # <<>> /\ TargetDate(ParseInt(r.year).n, ParseInt(r.month).n, offset) > t
  \/ ~GithubNamePattern(r.org)
  \/ ~GithubNamePattern(r.repo)

\* C17: a routed request that fails a check (org or repo length, year not an
\* integer in 2008..current year, month not an integer in 1..12, month in the
\* future, org or repo outside the name pattern) got exactly one 400
\* response, next was not called and the analysis was not started; a request
\* that passes every check got no response from the middleware, next was
\* called once and the analysis was started once.
C17_ValidatedOnly ==
  Routed =>
    IF FailsACheck(http.req, now, tz)
      THEN /\ Len(http.sent) = 1
           /\ http.sent[1].status = 400
           /\ http.next = 0
           /\ http.service = 0
           /\ \A p \in Procs : call[p].pc = "idle"
      ELSE /\ http.sent = <<>>
           /\ http.next = 1
           /\ http.service = 1
           /\ Cardinality({p \in Procs : call[p].pc # "idle"}) = 1

\* The year does not parse to a number of 2008 .. the current (local) year.
YearOutside(r, t, offset) ==
  LET yearNum == ParseInt(r.year)
  IN  yearNum.nan \/ yearNum.n < FIRST_YEAR \/ yearNum.n > CurrentYear(t, offset)

LengthsPass(r) ==
  /\ Len(r.org) >= 1 /\ Len(r.org) <= MAX_ORG_LENGTH
  /\ Len(r.repo) >= 1 /\ Len(r.repo) <= MAX_REPO_LENGTH

InvalidYear == <<[status |-> 400, error |-> "Invalid year"]>>

\* C18 as stated: every routed request whose year is outside 2008..current
\* year was answered 400 'Invalid year', whatever else it holds.
C18_AsStated ==
  Routed /\ YearOutside(http.req, now, tz) => http.sent = InvalidYear

\* C18: a routed request whose org and repo pass the length checks and whose
\* year is outside 2008..current year was answered 400 'Invalid year' and was
\* not passed on, whatever its month is (absent, valid, invalid, future) and
\* whether or not its names match the pattern.
C18_YearBeforeMonth ==
  Routed /\ LengthsPass(http.req) /\ YearOutside(http.req, now, tz) =>
    /\ http.sent = InvalidYear
    /\ http.next = 0
    /\ http.service = 0

\* A future year with month 1 was answered 'Invalid year'.
C18_Witness ==
  /\ Routed
  /\ http.req.org = OrgChars
  /\ http.req.repo = RepoChars
  /\ http.req.year = <<"2", "0", "5", "0">>
  /\ http.req.month = <<"1">>
  /\ CurrentYear(now, tz) < 2050
  /\ http.sent = InvalidYear

\* C19: in every step in which a caller dispatches a request to the upstream,
\* a first send or a resend after a quota wait or a transient failure, the
\* governor's check has been passed (the window is reset when the hour is
\* over or the caller slept for it, and the count stays within the budget)
\* and requestCount is the count after the check plus one; a step in which
\* nothing is dispatched, such as one that the cache answers, leaves
\* requestCount and lastResetTime unchanged.
C19_EveryDispatchCounted ==
  [][/\ \A p \in Procs :
          Dispatches(p) =>
            /\ requestCount' =
                 (IF call[p].pc = "rateWait" \/ now' - lastResetTime >= HOUR
                    THEN 0 ELSE requestCount) + 1
            /\ requestCount' <= rateLimit
     /\ (\A p \in Procs : ~Dispatches(p)) => UNCHANGED <<requestCount, lastResetTime>>]_vars

\* A request was sent, failed, and was sent again a second later: two counted.
C19_Witness ==
  /\ budget.callers = 1
  /\ call[1].pc = "inflight"
  /\ call[1].req.kind = "repo"
  /\ call[1].resends = 1
  /\ now = Now0 + RETRY_DELAY
  /\ requestCount = 2
  /\ lastResetTime = Now0

\* C20: a request that reaches the governor an hour or more after
\* lastResetTime is dispatched in the same step, without suspension, whatever
\* the count was; lastResetTime becomes the current time (not a multiple of
\* hours after the old one) and requestCount is 1 afterwards.
C20_StaleWindowReset ==
  [][\A p \in Procs :
       Reaches(p) /\ now' - lastResetTime >= HOUR =>
         /\ call'[p].pc = "inflight"
         /\ lastResetTime' = now'
         /\ requestCount' = 1]_vars

\* With a budget of one request an hour, an analysis was computed, more than
\* a day passed, and the next request was dispatched at once.
C20_Witness ==
  /\ budget.callers = 1
  /\ rateLimit = 1
  /\ returned # <<>>
  /\ call[1].pc = "inflight"
  /\ call[1].req.kind = "repo"
  /\ call[1].resends = 0
  /\ Len(call[1].sent) = 1
  /\ now - Now0 > stdTTL + 2 * HOUR
  /\ lastResetTime = now
  /\ requestCount = 1

\* The request of a caller that waits for the network, for the governor or
\* for a resend.
Waits(c) == c.pc \in {"inflight", "rateWait", "retryWait"}

\* Rank of a logged run in the order repository, baseline window, target window.
RunRank(c, r) ==
  IF r.kind = "repo" THEN 0 ELSE IF c.phase # "none" /\ IsBaselineRun(c, r) THEN 1 ELSE 2

\* C21: a call has one request at a time and issues its requests in the
\* order repository, baseline pages ascending, target pages ascending: the
\* runs of its log are in this order with ascending pages, and a page request
\* is the one for the page the loop is at, made when every earlier page of
\* the window has returned and been appended (page - 1 full pages).
C21_Sequential ==
  \A p \in Procs :
    LET c == call[p]
    IN  /\ \A i, j \in 1 .. Len(c.sent) :
             i < j =>
               /\ RunRank(c, c.sent[i]) <= RunRank(c, c.sent[j])
               /\ RunRank(c, c.sent[i]) = RunRank(c, c.sent[j]) =>
                    c.sent[i].last <= c.sent[j].first
        /\ \A i \in 1 .. Len(c.sent) :
             /\ c.sent[i].first <= c.sent[i].last
             /\ c.sent[i].kind = "commits" => c.sent[i].first >= 1
        /\ Waits(c) /\ c.req.kind = "repo" =>
             /\ c.phase = "none"
             /\ \A i \in 1 .. Len(c.sent) : c.sent[i].kind = "repo"
        /\ Waits(c) /\ c.req.kind = "commits" =>
             /\ c.phase \in {"before", "period"}
             /\ c.req.page = c.page
             /\ c.req.since = c.since /\ c.req.until = c.until
             /\ Length(c.allCommits) = (c.page - 1) * PER_PAGE
             /\ c.phase = "before" =>
                  /\ IsBaselineRun(c, c.req)
                  /\ \A i \in 1 .. Len(c.sent) : RunRank(c, c.sent[i]) <= 1
             /\ c.phase = "period" =>
                  /\ IsTargetRun(c, c.req)
        /\ c.pc = "inflight" => c.sent # <<>> /\ c.sent[Len(c.sent)].last = c.req.page

\* Page 3 of the target window is in flight after the repository, the
\* baseline page and target pages 1 and 2 were fetched in this order.
C21_Witness ==
  \E p \in Procs :
    LET c == call[p]
    IN  /\ c.pc = "inflight"
        /\ c.phase = "period"
        /\ c.req.page = 3
        /\ c.resends = 0 /\ c.pageHits = 0
        /\ Len(c.sent) = 3
        /\ c.sent[1].kind = "repo"
        /\ IsBaselineRun(c, c.sent[2])
        /\ IsTargetRun(c, c.sent[3]) /\ c.sent[3].first = 1 /\ c.sent[3].last = 3

(***************************************************************************)
(* Requests for the running month and year, on a repository that may be    *)
(* a few minutes old: the windows that reach the present.                  *)
(***************************************************************************)
RecentQueries ==
  {[year |-> 2024, month |-> <<"1">>], [year |-> 2024, month |-> <<>>],
   [year |-> 2021, month |-> <<"6">>]}
RecentHistory ==
  <<Run("a", 1, Now0 - HOUR \div 2), Run("b", 1, UtcMidnight(2024, 1, 2)), Run("c", 1, TBefore)>>
RecentCreated == {UtcMidnight(2020, 1, 1), Now0 - HOUR}

InitRecent ==
  \E t \in RecentCreated, o \in Offsets :
    /\ now = Now0
    /\ tz = o
    /\ upRepo = "ok"
    /\ upCreatedAt = t
    /\ upHistory = InWindow(RecentHistory, t, Now0)
    /\ budget = Budget(1, MaxCalls, 1)
    /\ cache = <<>>
    /\ requestCount = 0
    /\ lastResetTime = Now0
    /\ rateLimit = DEFAULT_RATE_LIMIT
    /\ call = [p \in Procs |-> Fresh]
    /\ fetchedAt = <<>>
    /\ returned = <<>>
    /\ http = NoHttp

NextRecent ==
  \/ \E p \in Procs, q \in RecentQueries : Start(p, q) /\ UNCHANGED http
  \/ \E p \in Procs : GetCommits(p)
  \/ \E p \in Procs : RespondOk(p)
  \/ \E d \in Deltas : Tick(d)

SpecRecent == InitRecent /\ [][NextRecent]_vars

\* The entry of key k is written in this step.
Stored(k) == k \in DOMAIN cache' /\ (k \notin DOMAIN cache \/ cache'[k] # cache[k])

\* C22: a commit page is stored with a TTL of 5 minutes when its since
\* boundary lies within the last 24 hours of the clock, and of 1 hour
\* otherwise, and the 1-hour TTL goes only to windows that are over (until
\* lies in the past); repository and result entries are stored with the
\* default TTL of 24 hours.
C22_CacheTtl ==
  [][\A k \in DOMAIN cache' :
       Stored(k) =>
         IF k[1] = "commits"
           THEN /\ cache'[k].t - now' = (IF k[4] > now' - DAY THEN RECENT_TTL ELSE HISTORIC_TTL)
                /\ cache'[k].t - now' = HISTORIC_TTL => k[5] < now'
           ELSE cache'[k].t - now' = stdTTL]_vars

(***************************************************************************)
(* Cache keys as the strings the code builds: template literals that join  *)
(* the parameters with colons.  A string is the sequence of its characters.*)
(***************************************************************************)
RECURSIVE Decimal(_)
\* String(n) for a natural number
Decimal(n) ==
  IF n < 10 THEN <<DecimalDigits[n + 1]>>
  ELSE Decimal(n \div 10) \o <<DecimalDigits[(n % 10) + 1]>>

\* n written with at least width digits
PadDigits(n, width) ==
  LET d == Decimal(n)
  IN  [i \in 1 .. (IF Len(d) < width THEN width - Len(d) ELSE 0) |-> "0"] \o d

\* Date.prototype.toISOString: YYYY-MM-DDTHH:mm:ss.sssZ, in UTC
ToISOString(t) ==
  LET f == CivilFromDays(t \div DAY)
      s == t % DAY
  IN  PadDigits(f.year, 4) \o <<"-">> \o PadDigits(f.month, 2) \o <<"-">> \o PadDigits(f.day, 2)
        \o <<"T">> \o PadDigits(s \div 3600, 2) \o <<":">> \o PadDigits((s % 3600) \div 60, 2)
        \o <<":">> \o PadDigits(s % 60, 2) \o <<".", "0", "0", "0", "Z">>

\* `repo:${org}:${repo}`
RepoKeyText(org, repo) ==
  <<"r", "e", "p", "o", ":">> \o org \o <<":">> \o repo

\* `commits:${org}:${repo}:${since}:${until}:${page}`
CommitsKeyText(org, repo, since, until, page) ==
  <<"c", "o", "m", "m", "i", "t", "s", ":">> \o org \o <<":">> \o repo \o <<":">>
    \o ToISOString(since) \o <<":">> \o ToISOString(until) \o <<":">> \o Decimal(page)

\* `contributors:${org}:${repo}:${year}:${month || "all"}`
ContributorsKeyText(org, repo, year, month) ==
  <<"c", "o", "n", "t", "r", "i", "b", "u", "t", "o", "r", "s", ":">> \o org \o <<":">>
    \o repo \o <<":">> \o year \o <<":">> \o (IF month # <<>> THEN month ELSE <<"a", "l", "l">>)

\* A logical request: the entity kind and its parameters; the fields a kind
\* does not have are empty.
RepositoryEntity(org, repo) ==
  [kind |-> "repo", org |-> org, repo |-> repo, since |-> 0, until |-> 0, page |-> 0,
   year |-> <<>>, month |-> <<>>]
CommitsEntity(org, repo, since, until, page) ==
  [kind |-> "commits", org |-> org, repo |-> repo, since |-> since, until |-> until,
   page |-> page, year |-> <<>>, month |-> <<>>]
ResultEntity(org, repo, year, month) ==
  [kind |-> "contributors", org |-> org, repo |-> repo, since |-> 0, until |-> 0, page |-> 0,
   year |-> year, month |-> month]

KeyText(e) ==
  IF e.kind = "repo" THEN RepoKeyText(e.org, e.repo)
  ELSE IF e.kind = "commits" THEN CommitsKeyText(e.org, e.repo, e.since, e.until, e.page)
  ELSE ContributorsKeyText(e.org, e.repo, e.year, e.month)

KeyNames == {<<"a">>, <<"c">>, <<"a", ":", "b">>, <<"b", ":", "c">>}
KeyInstants == {UtcMidnight(2021, 6, 1), TInside}
KeyPages == {1, 11}
KeyYears == {<<"2", "0", "2", "1">>}
KeyMonths == {<<>>, <<"6">>, <<"0", "6">>, <<"a", "l", "l">>}
Entities ==
  {RepositoryEntity(o, r) : o \in KeyNames, r \in KeyNames}
    \cup {CommitsEntity(o, r, s, u, n) :
            o \in KeyNames, r \in KeyNames, s \in KeyInstants, u \in KeyInstants, n \in KeyPages}
    \cup {ResultEntity(o, r, y, m) :
            o \in KeyNames, r \in KeyNames, y \in KeyYears, m \in KeyMonths}

\* githubServices.ts 148-160, 176-200, 221-306: an entity is fetched or
\* computed on a miss and stored under its key (here the value stored names
\* the request it was made for)
Store(e) ==
  /\ budget.calls > 0
  /\ ~Live(cache, KeyText(e), now)
  /\ budget' = [budget EXCEPT !.calls = @ - 1]
  /\ cache' = CacheSet(cache, KeyText(e), e,
                       IF e.kind = "commits" THEN CommitsCacheTime(e.since, now) ELSE stdTTL,
                       now)
  /\ UNCHANGED <<http, now, upRepo, upstream, requestCount, lastResetTime, call, fetchedAt,
                 returned>>

InitKeys ==
  /\ now = Now0
  /\ tz = 0
  /\ upRepo = "ok"
  /\ upCreatedAt = UtcMidnight(2020, 1, 1)
  /\ upHistory = ExampleHistory
  /\ budget = Budget(1, MaxCalls, 0)
  /\ cache = <<>>
  /\ requestCount = 0
  /\ lastResetTime = Now0
  /\ rateLimit = DEFAULT_RATE_LIMIT
  /\ call = [p \in Procs |-> Fresh]
  /\ fetchedAt = <<>>
  /\ returned = <<>>
  /\ http = NoHttp

NextKeys == \E e \in Entities : Store(e)

SpecKeys == InitKeys /\ [][NextKeys]_vars

\* C23: a read of the cache for a logical request returns only a value that
\* was stored for that very request: requests that differ in kind or in a
\* parameter have different keys.
C23_KeysInjective ==
  \A e \in Entities :
    Live(cache, KeyText(e), now) => cache[KeyText(e)].v = e

\* The requested period is over before the repository was created.
EndsBeforeCreation(c) ==
  c.phase # "none" /\ EndDate(c.year, c.month, tz) < c.repoCreatedAt

\* C24: when the requested period ends before the repository was created the
\* call is neither rejected nor cut short: the start is clamped to createdAt,
\* no baseline page is requested, the target pages are requested with
\* since = createdAt later than until = the period's end, and the result is
\* computed from the commits that request returns and is cached.
C24_InvertedWindow ==
  \A p \in Procs :
    LET c == call[p]
        key == ContributorsKey(c.org, c.repo, c.year, c.month)
    IN  EndsBeforeCreation(c) =>
          /\ c.startDate = c.repoCreatedAt
          /\ c.endDate = EndDate(c.year, c.month, tz)
          /\ c.startDate > c.endDate
          /\ c.phase = "period"
          /\ c.since = c.repoCreatedAt /\ c.until = c.endDate
          /\ c.beforePeriodCommits = <<>>
          /\ \A i \in 1 .. Len(c.sent) : c.sent[i].kind = "commits" => IsTargetRun(c, c.sent[i])
          /\ Waits(c) => c.req.kind = "commits" /\ c.req.since > c.req.until
          /\ c.pc = "failed" => c.err # NoReply \/ upRepo # "ok"
          /\ Computed(p) =>
               /\ c.pageHits > 0 \/ \E i \in 1 .. Len(c.sent) : IsTargetRun(c, c.sent[i])
               /\ c.periodCommits = Take(InWindow(upHistory, c.repoCreatedAt, c.endDate), Cap)
               /\ c.result.newContributors = Cardinality(PresentLogins(c.periodCommits))
               /\ c.status = 200
               /\ key \in DOMAIN cache /\ cache[key].v = c.result

\* A repository created in March 2022 was analysed for 2021: one page request
\* with since after until, and a result of 0 in the cache.
C24_Witness ==
  \E p \in Procs :
    LET c == call[p]
    IN  /\ Computed(p)
        /\ EndsBeforeCreation(c)
        /\ c.repoCreatedAt = UtcMidnight(2022, 3, 1)
        /\ c.pageHits = 0 /\ c.resends = 0
        /\ Len(c.sent) = 2
        /\ c.sent[2].since = c.repoCreatedAt /\ c.sent[2].since > c.sent[2].until
        /\ c.result.newContributors = 0
        /\ Live(cache, ContributorsKey(c.org, c.repo, c.year, c.month), now)

(***************************************************************************)
(* The request interceptor step by step.  It awaits checkRateLimit and     *)
(* increments requestCount after the await, so calls of getRepository      *)
(* that begin in the same turn of the event loop all run their check       *)
(* before any of them counts.  Timers and responses are later turns.       *)
(***************************************************************************)
\* githubServices.ts 122-137 and 72: checkRateLimit up to its sleep or to its
\* return, where the interceptor waits at its await
CheckRateLimit(m, req, t) ==
  LET timeSinceReset == t - m.lastResetTime
      reset == timeSinceReset >= HOUR
      count == IF reset THEN 0 ELSE m.requestCount
      since == IF reset THEN t ELSE m.lastResetTime
  IN  IF count >= rateLimit
        THEN [m EXCEPT !.requestCount = count, !.lastResetTime = since,
                       !.c.pc = "rateWait", !.c.req = req,
                       !.c.wake = t + (HOUR - timeSinceReset)]
        ELSE [m EXCEPT !.requestCount = count, !.lastResetTime = since,
                       !.c.pc = "counting", !.c.req = req]

\* No interceptor waits at its await: the turn of the event loop is over.
TurnOver == \A o \in Procs : call[o].pc # "counting"

\* githubServices.ts 147-156 and 70-72: getRepository is called
RaceStart(p) ==
  /\ ~Busy(p)
  /\ p <= budget.callers
  /\ \A o \in 1 .. p - 1 : Busy(o)
  /\ budget.calls > 0
  /\ budget' = [budget EXCEPT !.calls = @ - 1]
  /\ LET m == [Machine(p) EXCEPT !.c = Fresh]
     IN  IF Live(cache, RepoKey(m.c.org, m.c.repo), now)
           THEN Apply(p, [m EXCEPT !.c.pc = "done", !.c.hit = TRUE])
           ELSE Apply(p, CheckRateLimit(m, RepoRequest, now))
  /\ UNCHANGED <<http, now, upRepo, upstream, fetchedAt>>

\* githubServices.ts 73-74: after the await the request is counted and leaves
RaceCount(p) ==
  LET c == call[p]
  IN  /\ c.pc = "counting"
      /\ Apply(p, [Machine(p) EXCEPT !.requestCount = @ + 1,
                                     !.c.pc = "inflight", !.c.sent = Logged(@, c.req)])
      /\ UNCHANGED <<http, now, upRepo, upstream, budget, fetchedAt>>

\* githubServices.ts 137-139: the sleep of checkRateLimit is over
RaceWake(p) ==
  LET c == call[p]
  IN  /\ c.pc = "rateWait"
      /\ TurnOver
      /\ now' = Max(now, c.wake)
      /\ Apply(p, [Machine(p) EXCEPT !.requestCount = 0, !.lastResetTime = now',
                                     !.c.pc = "counting"])
      /\ UNCHANGED <<http, upRepo, upstream, budget, fetchedAt>>

\* githubServices.ts 156-160: the repository arrives and is cached
RaceRespond(p) ==
  LET c == call[p]
      m == Machine(p)
  IN  /\ c.pc = "inflight"
      /\ TurnOver
      /\ fetchedAt' = Append(fetchedAt, now)
      /\ Apply(p, [m EXCEPT !.cache = CacheSet(cache, RepoKey(c.org, c.repo),
                                               [created_at |-> upCreatedAt], stdTTL, now),
                            !.c.pc = "done", !.c.req = NoRequest,
                            !.c.repoCreatedAt = upCreatedAt])
      /\ UNCHANGED <<http, now, upRepo, upstream, budget>>

RaceTick(d) == TurnOver /\ Tick(d)

InitRace ==
  \E l \in RateLimits, o \in Offsets :
    /\ now = Now0
    /\ tz = o
    /\ upRepo = "ok"
    /\ upCreatedAt = UtcMidnight(2020, 1, 1)
    /\ upHistory = ExampleHistory
    /\ budget = Budget(NProcs, MaxCalls + 1, MaxEvents)
    /\ cache = <<>>
    /\ requestCount = 0
    /\ lastResetTime = Now0
    /\ rateLimit = l
    /\ call = [p \in Procs |-> Fresh]
    /\ fetchedAt = <<>>
    /\ returned = <<>>
    /\ http = NoHttp

NextRace ==
  \/ \E p \in Procs : RaceStart(p)
  \/ \E p \in Procs : RaceCount(p)
  \/ \E p \in Procs : RaceWake(p)
  \/ \E p \in Procs : RaceRespond(p)
  \/ \E d \in Deltas : RaceTick(d)

SpecRace == InitRace /\ [][NextRace]_vars

\* C25: whatever the interleaving of the callers, requestCount, the number of
\* requests dispatched since lastResetTime was last set, never exceeds the
\* configured limit.
C25_WithinBudget == requestCount <= rateLimit

\* C26: a computed analysis has emitted the page-limit warning exactly when
\* one of its windows was cut by the cap: a window longer than 1000 pages
\* warns, and a warning means that page 1000 of a window was full; a window
\* whose last, short or empty, page is page 1000 or earlier gives no warning.
C26_WarningIffTruncated ==
  \A p \in Procs :
    LET c == call[p]
        target == Length(TargetWindow(c.year, c.month))
        baseline == Length(BaselineWindow(c.year, c.month))
    IN  Computed(p) /\ c.pageHits = 0 /\ upRepo = "ok" =>
          /\ target > Cap \/ baseline > Cap => c.warned >= 1
          /\ c.warned >= 1 => target >= Cap \/ baseline >= Cap

=============================================================================
